---------------------------- MODULE Spec2Model ----------------------------
(***************************************************************************)
(* Sparse matrix-vector product benchmark (src/stream/main.py).            *)
(*                                                                         *)
(* Two specifications:                                                     *)
(*   Spec     applies the pure functions csr2dict and vecmul to inputs     *)
(*            drawn from bounded sets (valid and malformed compressed-row  *)
(*            matrices, dictionary matrices, partial vectors).             *)
(*   SpecRun  is the driver run(ns, densities, method), one action per     *)
(*            statement of its loop nest.                                  *)
(*                                                                         *)
(* Python values are modelled as follows.  A dict is a function whose      *)
(* DOMAIN is its key set.  A numpy array / list is a sequence, read with   *)
(* 0-based indices through At and Slice.  Vector values are counted in     *)
(* halves (the toy vector 0.5, 1, 0.5, 2, 1 is 1, 2, 1, 4, 2), so every    *)
(* product and sum is exact integer arithmetic.  A call's outcome is a     *)
(* record [status |-> "ok", value |-> ...] or [status |-> <exception>].    *)
(***************************************************************************)
EXTENDS Integers, Sequences, FiniteSets, TLC

VARIABLES
    A,            \* compressed-row matrix under conversion (csr2dict's argument)
    adj,          \* outcome of csr2dict(A), or the dictionary matrix given to vecmul
    v_dict,       \* vector as a dict index -> value
    res,          \* outcome of the product operation
    ns,           \* run: argument ns
    densities,    \* run: argument densities
    method,       \* run: argument method
    pc,           \* run: statement about to be executed
    nIdx,         \* run: number of elements of ns consumed by "for n in ns"
    n,            \* run: loop variable n
    dIdx,         \* run: number of elements of densities consumed
    density,      \* run: loop variable density
    i,            \* run: number of repetitions started by "for i in range(3)"
    conv,         \* run: representations built for the method (MyDict, COO, CSC, LIL)
    start,        \* run: start = time.time()
    end,          \* run: end = time.time()
    history,      \* run: defaultdict(list) of the current n
    history_tot,  \* run: dict n -> history
    clock,        \* run: loop-body statements executed so far; time.time() reads it
    events,       \* run: statements executed by the current trial, in order
    calls         \* run: number of generator / converter / product calls so far

convVars == <<A, adj, v_dict, res>>
runVars  == <<ns, densities, method, pc, nIdx, n, dIdx, density, i, conv, start,
              end, history, history_tot, clock, events, calls>>
vars     == <<convVars, runVars>>

----------------------------------------------------------------------------
(* Bounds of the model. *)

MaxRows == 3
MaxCols == 2
MaxNnz == 2
MaxSweepLen == 2

DataVals == {1, 2}     \* stored matrix values
VecVals  == {1, 2}     \* vector values, in halves

----------------------------------------------------------------------------
(* Python helpers. *)

Min(a, b) == IF a < b THEN a ELSE b
Max(a, b) == IF a > b THEN a ELSE b

\* s[k] with a 0-based index
At(s, k) == s[k + 1]

\* a slice bound as Python normalises it: negative counts from the end, then clamp
SliceBound(k, len) == IF k < 0 THEN Max(k + len, 0) ELSE Min(k, len)

\* s[lo:hi]
Slice(s, lo, hi) ==
    LET l == SliceBound(lo, Len(s))
        h == SliceBound(hi, Len(s))
    IN  IF h <= l THEN << >> ELSE SubSeq(s, l + 1, h)

\* list(zip(a, b)): stops at the shorter argument
Zip(a, b) == [k \in 1..Min(Len(a), Len(b)) |-> <<a[k], b[k]>>]

\* {col: val for col, val in pairs}: a later pair overwrites an earlier one
DictFromPairs(pairs) ==
    LET keys == {pairs[k][1] : k \in DOMAIN pairs}
        last(c) == CHOOSE k \in DOMAIN pairs :
                      /\ pairs[k][1] = c
                      /\ \A j \in DOMAIN pairs : pairs[j][1] = c => j <= k
    IN  [c \in keys |-> pairs[last(c)][2]]

\* d with d[k] = x assigned
DictSet(d, k, x) == [y \in DOMAIN d \cup {k} |-> IF y = k THEN x ELSE d[y]]

\* d.get(k, default)
DictGet(d, k, default) == IF k \in DOMAIN d THEN d[k] ELSE default

EmptyDict == << >>

----------------------------------------------------------------------------
(* csr2dict, lines 11-25. *)

\* the rows the loop "for i in range(1, len(indptr)-1)" visits, as values of i
Csr2dictRange(M) == 1 .. (Len(M.indptr) - 2)

\* the test of line 20
RowNonEmptyAlways(M, k) == TRUE
RowNonEmptyStrict(M, k) == At(M.indptr, k) - At(M.indptr, k - 1) > 1
RowNonEmpty(M, k) == At(M.indptr, k) - At(M.indptr, k - 1) > 0

\* lines 21-23: the inner mapping of row k-1
RowDict(M, k) ==
    LET columns == Slice(M.indices, At(M.indptr, k - 1), At(M.indptr, k))
        data    == Slice(M.data, At(M.indptr, k - 1), At(M.indptr, k))
    IN  DictFromPairs(Zip(columns, data))

\* the loop of lines 19-23 from i = k on, with the dictionary built so far
RECURSIVE Csr2dictLoop(_, _, _)
Csr2dictLoop(M, k, acc) ==
    IF k \notin Csr2dictRange(M) THEN acc
    ELSE Csr2dictLoop(M, k + 1,
                      IF RowNonEmpty(M, k) THEN DictSet(acc, k - 1, RowDict(M, k))
                      ELSE acc)

\* a compressed-row matrix that breaks the format: offsets that decrease, or a
\* column index outside [0, cols)
Malformed(M) ==
    \/ \E k \in 1..(Len(M.indptr) - 1) : M.indptr[k + 1] < M.indptr[k]
    \/ \E k \in DOMAIN M.indices : M.indices[k] \notin 0..(M.shape[2] - 1)

csr2dictValidating(M) ==
    IF Malformed(M) THEN [status |-> "StructuralValidityError"]
    ELSE [status |-> "ok", value |-> Csr2dictLoop(M, 1, EmptyDict)]
csr2dict(M) == [status |-> "ok", value |-> Csr2dictLoop(M, 1, EmptyDict)]

----------------------------------------------------------------------------
(* vecmul, lines 37-43. *)

\* the inner loop of lines 41-42 over the columns not yet visited
RECURSIVE VecmulRow(_, _, _, _, _)
VecmulRow(row, key, todo, v, acc) ==
    IF todo = {} THEN acc
    ELSE LET key_col == CHOOSE c \in todo : \A d \in todo : c <= d
         IN  VecmulRow(row, key, todo \ {key_col}, v,
                       DictSet(acc, key, DictGet(acc, key, 0) + row[key_col] * v[key_col]))

\* the outer loop of line 40 over the rows not yet visited
RECURSIVE VecmulLoop(_, _, _, _)
VecmulLoop(a, todo, v, acc) ==
    IF todo = {} THEN acc
    ELSE LET key == CHOOSE r \in todo : \A s \in todo : r <= s
         IN  VecmulLoop(a, todo \ {key}, v,
                        VecmulRow(a[key], key, DOMAIN a[key], v, acc))

\* v[key_col] of line 42 raises KeyError when key_col is not a key of v
MissingKey(a, v) == \E r \in DOMAIN a : \E c \in DOMAIN a[r] : c \notin DOMAIN v

\* variants of vecmul: the last product overwrites the row's sum; the result
\* is dense up to the last row; a missing vector value counts as zero
vecmulOverwrite(a, v) ==
    IF MissingKey(a, v) THEN [status |-> "KeyError"]
    ELSE [status |-> "ok",
          value |-> [r \in {x \in DOMAIN a : DOMAIN a[x] # {}} |->
                        LET c == CHOOSE y \in DOMAIN a[r] : \A z \in DOMAIN a[r] : z <= y
                        IN  a[r][c] * v[c]]]
vecmulDense(a, v) ==
    IF MissingKey(a, v) THEN [status |-> "KeyError"]
    ELSE LET sparse == VecmulLoop(a, DOMAIN a, v, EmptyDict)
             top == CHOOSE y \in DOMAIN a \cup {0} : \A z \in DOMAIN a : z <= y
         IN  [status |-> "ok",
              value |-> [r \in 0..top |-> DictGet(sparse, r, 0)]]
vecmulDefaultZero(a, v) ==
    LET known == [r \in DOMAIN a |-> [c \in DOMAIN a[r] \cap DOMAIN v |-> a[r][c]]]
    IN  [status |-> "ok", value |-> VecmulLoop(known, DOMAIN known, v, EmptyDict)]

vecmul(a, v) ==
    IF MissingKey(a, v) THEN [status |-> "KeyError"]
    ELSE [status |-> "ok", value |-> VecmulLoop(a, DOMAIN a, v, EmptyDict)]

----------------------------------------------------------------------------
(* Inputs of the pure functions. *)

BoundedSeq(S, k) == UNION {[1..m -> S] : m \in 0..k}

NonDecreasing(s) == \A k \in 1..(Len(s) - 1) : s[k] <= s[k + 1]

\* the positions of row r (0-based) in indices / data, 1-based
RowRange(M, r) == (At(M.indptr, r) + 1) .. At(M.indptr, r + 1)

\* the invariants of the compressed-row format (spec section 3)
Valid(M) ==
    /\ M.shape[1] >= 1 /\ M.shape[2] >= 1
    /\ Len(M.indptr) = M.shape[1] + 1
    /\ Len(M.indices) = Len(M.data)
    /\ M.indptr[1] = 0
    /\ M.indptr[Len(M.indptr)] = Len(M.indices)
    /\ NonDecreasing(M.indptr)
    /\ \A k \in DOMAIN M.indices : M.indices[k] \in 0..(M.shape[2] - 1)
    /\ \A r \in 0..(M.shape[1] - 1) :
          \A j, k \in RowRange(M, r) : j # k => M.indices[j] # M.indices[k]

CsrOf(r, c, p, e) ==
    [shape |-> <<r, c>>, indptr |-> p,
     indices |-> [k \in DOMAIN e |-> e[k][1]],
     data |-> [k \in DOMAIN e |-> e[k][2]]]

\* M is a compressed-row input, well formed or not: rows + 1 offsets, each
\* anywhere within the stored entries, and column indices up to one past the
\* last column
IsCsrInput(M) ==
    \E sh \in (1..MaxRows) \X (1..MaxCols) :
       \E e \in BoundedSeq((0..sh[2]) \X DataVals, MaxNnz) :
          \E p \in [1..(sh[1] + 1) -> 0..Len(e)] :
             M = CsrOf(sh[1], sh[2], p, e)

\* the matrix of run_toy, lines 134-139, in compressed-row form
ToyCsr ==
    [shape |-> <<5, 5>>, indptr |-> <<0, 0, 2, 3, 5, 5>>,
     indices |-> <<3, 4, 2, 0, 2>>, data |-> <<1, 1, 1, 1, 1>>]

\* the vector of run_toy, line 148, in halves
ToyV == (0 :> 1) @@ (1 :> 2) @@ (2 :> 1) @@ (3 :> 4) @@ (4 :> 2)

PartialMaps(K, V) == UNION {[D -> V] : D \in SUBSET K}

NnzOfDict(a) == Cardinality({<<r, c>> \in (DOMAIN a) \X (0..(MaxCols - 1)) : c \in DOMAIN a[r]})

\* dictionary matrices row -> {col -> value}; an inner mapping may be empty
DictInputs ==
    { a \in PartialMaps(0..(MaxRows - 1), PartialMaps(0..(MaxCols - 1), DataVals)) :
        NnzOfDict(a) <= MaxNnz }

\* vectors as dicts; a key may be missing
Vectors == PartialMaps(0..(MaxCols - 1), VecVals)

\* vectors with every index present, as line 58 builds them
FullVectors(len) == [0..(len - 1) -> VecVals]

Pending == [status |-> "pending"]
NoCsr == [shape |-> <<0, 0>>, indptr |-> << >>, indices |-> << >>, data |-> << >>]
----------------------------------------------------------------------------
(* Specification Spec: the pure functions applied to drawn inputs. *)

RunIdle ==
    /\ ns = << >> /\ densities = << >> /\ method = "none" /\ pc = "idle"
    /\ nIdx = 0 /\ n = 0 /\ dIdx = 0 /\ density = <<0, 1>> /\ i = 0
    /\ conv = EmptyDict /\ start = 0 /\ end = 0
    /\ history = EmptyDict /\ history_tot = EmptyDict
    /\ clock = 0 /\ events = << >>
    /\ calls = [gen |-> 0, conv |-> 0, prod |-> 0]

Init ==
    /\ \/ (IsCsrInput(A) \/ A = ToyCsr) /\ adj = Pending
       \/ A = NoCsr /\ adj \in {[status |-> "ok", value |-> a] : a \in DictInputs}
    /\ v_dict = EmptyDict
    /\ res = Pending
    /\ RunIdle

\* adj = csr2dict(A)
Csr2dictCall ==
    /\ pc = "idle"
    /\ adj = Pending
    /\ adj' = csr2dict(A)
    /\ UNCHANGED <<A, v_dict, res, runVars>>

\* the vectors a product is tried with: any partial vector for a drawn
\* dictionary, the toy vector for the toy matrix, and for a converted matrix
\* the vectors of line 58, which hold every index
VectorsFor(M) ==
    IF M = NoCsr THEN Vectors
    ELSE IF M = ToyCsr THEN {ToyV}
    ELSE FullVectors(M.shape[2])

\* res = vecmul(adj, v_dict)
VecmulCall ==
    /\ pc = "idle"
    /\ adj.status = "ok"
    /\ res = Pending
    /\ A = NoCsr \/ Valid(A)
    /\ \E v \in VectorsFor(A) :
          /\ v_dict' = v
          /\ res' = vecmul(adj.value, v)
    /\ UNCHANGED <<A, adj, runVars>>

Next == Csr2dictCall \/ VecmulCall

Spec == Init /\ [][Next]_vars
----------------------------------------------------------------------------
(* run(ns, densities, method), lines 46-128. *)

\* for i in range(3), line 52
RepsOneLess == 3 - 1
Reps == 3

\* the methods run has a branch for, lines 62-119
Methods ==
    {"CSR", "python_dict", "cython_dict", "cython_dict_map", "cython_dict_opt",
     "COO", "CSC", "LIL"}

\* 'numpy' (line 182) has no branch in run
AllMethods == Methods \cup {"numpy"}

Sizes == {1, 2}                      \* matrix sizes n
DensitySet == {<<1, 4>>, <<1, 2>>}   \* densities as <<numerator, denominator>>

\* the statements that build a representation for the method under test
Conversions == {"MyDict(A)", "MyDict(v_dict)", "tocoo", "tocsc", "tolil"}

\* the product calls
Products ==
    {"A.dot", "vecmul", "my_dict.dot", "my_dict.dot_map", "A_coo.dot",
     "A_csc.dot", "A_lil.dot"}

\* the first statement of the method's branch, lines 62-119
BranchOf(m) ==
    CASE m \in {"CSR", "python_dict"} -> "start"
      [] m \in {"cython_dict", "cython_dict_map", "cython_dict_opt"} -> "MyDict(A)"
      [] m = "COO" -> "tocoo"
      [] m = "CSC" -> "tocsc"
      [] m = "LIL" -> "tolil"
      [] OTHER -> "for_rep"

\* the product call the method's branch times
ProductOf(m) ==
    CASE m = "CSR" -> "A.dot"
      [] m = "python_dict" -> "vecmul"
      [] m = "cython_dict" -> "my_dict.dot"
      [] m \in {"cython_dict_map", "cython_dict_opt"} -> "my_dict.dot_map"
      [] m = "COO" -> "A_coo.dot"
      [] m = "CSC" -> "A_csc.dot"
      [] m = "LIL" -> "A_lil.dot"
      [] OTHER -> "none"

\* the statement run executes after statement loc; cond is the outcome of a
\* loop header ("the sequence has a next element")
RunFlow(loc, m, cond) ==
    CASE loc = "for_n" -> IF cond THEN "for_density" ELSE "return"
      [] loc = "for_density" -> IF cond THEN "for_rep" ELSE "store"
      [] loc = "store" -> "for_n"
      [] loc = "for_rep" -> IF cond THEN "create_sparse_matrix" ELSE "for_density"
      [] loc = "create_sparse_matrix" -> "randn"
      [] loc = "randn" -> "csr2dict"
      [] loc = "csr2dict" -> BranchOf(m)
      [] loc = "MyDict(A)" -> "MyDict(v_dict)"
      [] loc \in {"MyDict(v_dict)", "tocoo", "tocsc", "tolil"} -> "start"
      [] loc = "start" -> ProductOf(m)
      [] loc \in Products -> "end"
      [] loc = "end" -> "append"
      [] loc = "append" -> "for_rep"
      [] OTHER -> "done"

\* variants of the control flow: the conversion is made after the start time is
\* read; the matrix is generated before the density loop is entered
SuccTimedConversion(loc, m, cond) ==
    CASE loc = "csr2dict" /\ BranchOf(m) \in Conversions -> "start"
      [] loc = "start" /\ BranchOf(m) \in Conversions -> BranchOf(m)
      [] loc \in {"MyDict(v_dict)", "tocoo", "tocsc", "tolil"} -> ProductOf(m)
      [] OTHER -> RunFlow(loc, m, cond)
SuccHoistedSetup(loc, m, cond) ==
    IF loc = "for_n" /\ cond THEN "create_sparse_matrix" ELSE RunFlow(loc, m, cond)

Succ(loc, m, cond) == RunFlow(loc, m, cond)

\* int(n * m * density), line 30
SizeOf(k, d) == (k * k * d[1]) \div d[2]

\* the sum of data[k] over the positions k in todo
RECURSIVE SumAt(_, _)
SumAt(data, todo) ==
    IF todo = {} THEN 0
    ELSE LET k == CHOOSE x \in todo : TRUE
         IN  data[k] + SumAt(data, todo \ {k})

\* the elements of the set S of numbers in increasing order
RECURSIVE SortedSeq(_)
SortedSeq(S) ==
    IF S = {} THEN << >>
    ELSE LET x == CHOOSE y \in S : \A z \in S : y <= z
         IN  <<x>> \o SortedSeq(S \ {x})

\* sparse.csr_matrix((data, (rows, cols)), shape=(k, k)), line 34: entries at
\* the same position are summed, rows are stored in order
CsrFromCoo(data, rows, cols, k) ==
    LET colsOf(r) == {cols[j] : j \in {x \in DOMAIN rows : rows[x] = r}}
        rowIdx(r) == SortedSeq(colsOf(r))
        val(r, c) == SumAt(data, {x \in DOMAIN rows : rows[x] = r /\ cols[x] = c})
        rowData(r) == [j \in DOMAIN rowIdx(r) |-> val(r, rowIdx(r)[j])]
        cat[r \in 0..k] ==
            IF r = 0 THEN [idx |-> << >>, dat |-> << >>, ptr |-> <<0>>]
            ELSE LET prev == cat[r - 1]
                 IN  [idx |-> prev.idx \o rowIdx(r - 1),
                      dat |-> prev.dat \o rowData(r - 1),
                      ptr |-> Append(prev.ptr, Len(prev.idx) + Len(rowIdx(r - 1)))]
    IN  [shape |-> <<k, k>>, indptr |-> cat[k].ptr,
         indices |-> cat[k].idx, data |-> cat[k].dat]

\* the stored entries of a compressed-row matrix as (row, column, value) triples
Entries(M) ==
    UNION { { <<r, M.indices[k], M.data[k]>> :
                k \in RowRange(M, r) \cap DOMAIN M.indices \cap DOMAIN M.data } :
            r \in 0..(Len(M.indptr) - 2) }

\* the sum of value * v[column] over a set of entries
RECURSIVE SumProducts(_, _)
SumProducts(entries, v) ==
    IF entries = {} THEN 0
    ELSE LET t == CHOOSE x \in entries : TRUE
         IN  t[3] * v[t[2]] + SumProducts(entries \ {t}, v)

\* the representation a conversion statement builds, by its format and its
\* logical content
Convert(label, M, v) ==
    CASE label = "MyDict(A)" -> [format |-> "MyDict", rows |-> M.shape[1], items |-> Entries(M)]
      [] label = "MyDict(v_dict)" ->
            [format |-> "MyDict", rows |-> 1, items |-> {<<0, k, v[k]>> : k \in DOMAIN v}]
      [] label = "tocoo" -> [format |-> "coo", rows |-> M.shape[1], items |-> Entries(M)]
      [] label = "tocsc" -> [format |-> "csc", rows |-> M.shape[1], items |-> Entries(M)]
      [] label = "tolil" -> [format |-> "lil", rows |-> M.shape[1], items |-> Entries(M)]

\* the product of a library format (scipy): a dense vector of length rows
DenseDot(rep, v) ==
    [status |-> "ok",
     value |-> [r \in 0..(rep.rows - 1) |->
                   SumProducts({t \in rep.items : t[1] = r}, v)]]

\* the product of the MyDict type (spec section 4.3): a sparse mapping keyed
\* by the rows that hold an entry
MyDictDot(rep, v) ==
    [status |-> "ok",
     value |-> [r \in {t[1] : t \in rep.items} |->
                   SumProducts({t \in rep.items : t[1] = r}, v)]]

\* the value of the product call at statement label
Product(label, M, a, v, c) ==
    CASE label = "A.dot" -> DenseDot([rows |-> M.shape[1], items |-> Entries(M)], v)
      [] label = "vecmul" -> vecmul(a.value, v)
      [] label \in {"my_dict.dot", "my_dict.dot_map"} -> MyDictDot(c["MyDict(A)"], v)
      [] label = "A_coo.dot" -> DenseDot(c["tocoo"], v)
      [] label = "A_csc.dot" -> DenseDot(c["tocsc"], v)
      [] label = "A_lil.dot" -> DenseDot(c["tolil"], v)

\* a statement of the loop body has been executed: the clock advances and the
\* trial's record grows
Executed(label) ==
    /\ clock' = clock + 1
    /\ events' = Append(events, label)
    /\ pc' = Succ(label, method, TRUE)

InitRun ==
    /\ ns \in BoundedSeq(Sizes, MaxSweepLen)
    /\ densities \in BoundedSeq(DensitySet, MaxSweepLen)
    /\ method \in AllMethods
    /\ pc = "for_n"
    /\ A = NoCsr /\ adj = Pending /\ v_dict = EmptyDict /\ res = Pending
    /\ nIdx = 0 /\ n = 0 /\ dIdx = 0 /\ density = <<0, 1>> /\ i = 0
    /\ conv = EmptyDict /\ start = 0 /\ end = 0
    /\ history = EmptyDict
    /\ history_tot = EmptyDict                                       \* line 48
    /\ clock = 0 /\ events = << >>
    /\ calls = [gen |-> 0, conv |-> 0, prod |-> 0]

\* for n in ns (line 49), and history = defaultdict(list) (line 50)
ForN ==
    /\ pc = "for_n"
    /\ IF nIdx < Len(ns)
       THEN /\ n' = ns[nIdx + 1]
            /\ nIdx' = nIdx + 1
            /\ history' = EmptyDict
            /\ dIdx' = 0
            /\ pc' = Succ("for_n", method, TRUE)
       ELSE /\ pc' = Succ("for_n", method, FALSE)
            /\ UNCHANGED <<n, nIdx, history, dIdx>>
    /\ UNCHANGED <<convVars, ns, densities, method, density, i, conv, start, end,
                   history_tot, clock, events, calls>>

\* for density in densities (line 51)
ForDensity ==
    /\ pc = "for_density"
    /\ IF dIdx < Len(densities)
       THEN /\ density' = densities[dIdx + 1]
            /\ dIdx' = dIdx + 1
            /\ i' = 0
            /\ pc' = Succ("for_density", method, TRUE)
       ELSE /\ pc' = Succ("for_density", method, FALSE)
            /\ UNCHANGED <<density, dIdx, i>>
    /\ UNCHANGED <<convVars, ns, densities, method, nIdx, n, conv, start, end,
                   history, history_tot, clock, events, calls>>

\* history_tot[n] = history (line 127)
Store ==
    /\ pc = "store"
    /\ history_tot' = DictSet(history_tot, n, history)
    /\ pc' = Succ("store", method, TRUE)
    /\ UNCHANGED <<convVars, ns, densities, method, nIdx, n, dIdx, density, i, conv,
                   start, end, history, clock, events, calls>>

\* for i in range(3) (line 52).  The locals of the previous trial are dead when
\* a trial starts (each is assigned before it is read), and are cleared here.
ForRep ==
    /\ pc = "for_rep"
    /\ IF i < Reps
       THEN /\ i' = i + 1
            /\ events' = << >>
            /\ A' = NoCsr /\ adj' = Pending /\ v_dict' = EmptyDict /\ res' = Pending
            /\ conv' = EmptyDict /\ start' = 0 /\ end' = 0
            /\ pc' = Succ("for_rep", method, TRUE)
       ELSE /\ pc' = Succ("for_rep", method, FALSE)
            /\ UNCHANGED <<i, events, convVars, conv, start, end>>
    /\ UNCHANGED <<ns, densities, method, nIdx, n, dIdx, density, history,
                   history_tot, clock, calls>>

\* A = create_sparse_matrix(nb_nodes, density) (lines 55, 28-34): size random
\* positions, every value 1 (randint(1, 2))
Generate ==
    /\ pc = "create_sparse_matrix"
    /\ LET size == SizeOf(n, density)
       IN  \E rows \in [1..size -> 0..(n - 1)], cols \in [1..size -> 0..(n - 1)] :
              A' = CsrFromCoo([k \in 1..size |-> 1], rows, cols, n)
    /\ calls' = [calls EXCEPT !.gen = @ + 1]
    /\ Executed("create_sparse_matrix")
    /\ UNCHANGED <<adj, v_dict, res, ns, densities, method, nIdx, n, dIdx, density,
                   i, conv, start, end, history, history_tot>>

\* v = np.random.randn(A.shape[0]); v_dict = {k: v for k, v in enumerate(v)}
\* (lines 57-58)
RandomVector ==
    /\ pc = "randn"
    /\ v_dict' \in FullVectors(A.shape[1])
    /\ Executed("randn")
    /\ UNCHANGED <<A, adj, res, ns, densities, method, nIdx, n, dIdx, density, i,
                   conv, start, end, history, history_tot, calls>>

\* adj = csr2dict(A) (line 60)
Csr2dictStep ==
    /\ pc = "csr2dict"
    /\ adj' = csr2dict(A)
    /\ calls' = [calls EXCEPT !.conv = @ + 1]
    /\ Executed("csr2dict")
    /\ UNCHANGED <<A, v_dict, res, ns, densities, method, nIdx, n, dIdx, density, i,
                   conv, start, end, history, history_tot>>

\* my_dict = MyDict(A), my_v = MyDict(v_dict), A_coo = A.tocoo(),
\* A_csc = A.tocsc(), A_lil = A.tolil() (lines 77-78, 86-87, 95-96, 104, 112, 120)
ConvertStep ==
    /\ pc \in Conversions
    /\ conv' = DictSet(conv, pc, Convert(pc, A, v_dict))
    /\ Executed(pc)
    /\ UNCHANGED <<convVars, ns, densities, method, nIdx, n, dIdx, density, i,
                   start, end, history, history_tot, calls>>

\* start = time.time()
StartTimer ==
    /\ pc = "start"
    /\ start' = clock
    /\ Executed("start")
    /\ UNCHANGED <<convVars, ns, densities, method, nIdx, n, dIdx, density, i, conv,
                   end, history, history_tot, calls>>

\* res = <the product of the method> (lines 65, 72, 81, 90, 99, 107, 115, 123)
ProductStep ==
    /\ pc \in Products
    /\ res' = Product(pc, A, adj, v_dict, conv)
    /\ calls' = [calls EXCEPT !.prod = @ + 1]
    /\ Executed(pc)
    /\ UNCHANGED <<A, adj, v_dict, ns, densities, method, nIdx, n, dIdx, density, i,
                   conv, start, end, history, history_tot>>

\* end = time.time()
EndTimer ==
    /\ pc = "end"
    /\ end' = clock
    /\ Executed("end")
    /\ UNCHANGED <<convVars, ns, densities, method, nIdx, n, dIdx, density, i, conv,
                   start, history, history_tot, calls>>

\* history[density].append(end-start)
AppendSample ==
    /\ pc = "append"
    /\ history' = DictSet(history, density,
                          Append(DictGet(history, density, << >>), end - start))
    /\ Executed("append")
    /\ UNCHANGED <<convVars, ns, densities, method, nIdx, n, dIdx, density, i, conv,
                   start, end, history_tot, calls>>

\* return history_tot (line 128): the locals go
Return ==
    /\ pc = "return"
    /\ pc' = "done"
    /\ A' = NoCsr /\ adj' = Pending /\ v_dict' = EmptyDict /\ res' = Pending
    /\ conv' = EmptyDict /\ start' = 0 /\ end' = 0
    /\ UNCHANGED <<ns, densities, method, nIdx, n, dIdx, density, i, history,
                   history_tot, clock, events, calls>>

NextRun ==
    \/ ForN \/ ForDensity \/ Store \/ ForRep
    \/ Generate \/ RandomVector \/ Csr2dictStep \/ ConvertStep
    \/ StartTimer \/ ProductStep \/ EndTimer \/ AppendSample
    \/ Return

SpecRun == InitRun /\ [][NextRun]_vars
----------------------------------------------------------------------------
(* Properties of csr2dict and vecmul, checked under Spec. *)

\* the entries of a dictionary matrix as (row, column, value) triples
DictEntries(a) ==
    UNION { { <<r, c, a[r][c]>> : c \in DOMAIN a[r] } : r \in DOMAIN a }

\* csr2dict has been applied to the drawn matrix A
Converted == pc = "idle" /\ A # NoCsr /\ adj # Pending

\* vecmul has been applied to adj and v_dict
Multiplied == pc = "idle" /\ adj # Pending /\ res # Pending

InnerNonEmpty(a) == \A r \in DOMAIN a : DOMAIN a[r] # {}

\* C1: for every structurally valid compressed-row matrix, the triples of
\* csr2dict's result are exactly the stored (row, column, value) entries.
C1_RoundTrip ==
    (Converted /\ Valid(A)) =>
        /\ adj.status = "ok"
        /\ DictEntries(adj.value) = Entries(A)

\* C2: for a dictionary matrix whose inner mappings are non-empty and a vector
\* holding every referenced column, vecmul returns, for every row that is a key
\* of the matrix, the sum over the row's columns of value * v[column].
C2_RowSums ==
    (Multiplied /\ InnerNonEmpty(adj.value) /\ ~MissingKey(adj.value, v_dict)) =>
        /\ res.status = "ok"
        /\ \A row \in DOMAIN adj.value :
              /\ row \in DOMAIN res.value
              /\ res.value[row] =
                    SumProducts({<<row, c, adj.value[row][c]>> : c \in DOMAIN adj.value[row]},
                                v_dict)

\* a product over a row of two columns has been computed
C2_Witness ==
    /\ Multiplied /\ A = NoCsr /\ InnerNonEmpty(adj.value) /\ res.status = "ok"
    /\ \E row \in DOMAIN adj.value :
          /\ Cardinality(DOMAIN adj.value[row]) = 2
          /\ \E c, d \in DOMAIN adj.value[row] :
                c # d /\ adj.value[row][c] * v_dict[c] # adj.value[row][d] * v_dict[d]

\* C3: the result of vecmul is keyed only by rows that are keys of the matrix;
\* a row absent from the matrix is never a key of the result.
C3_SparseResult ==
    (Multiplied /\ res.status = "ok") => DOMAIN res.value \subseteq DOMAIN adj.value

\* a product has been computed for a matrix with an absent row below a present one
C3_Witness ==
    /\ Multiplied /\ res.status = "ok"
    /\ \E r \in DOMAIN adj.value : r # 0 /\ 0 \notin DOMAIN adj.value
                                   /\ r \in DOMAIN res.value

\* C4: for a structurally valid matrix, every key of csr2dict's result is a row
\* index in [0, rows) whose offset range is non-empty, and no key maps to an
\* empty inner mapping.
C4_Omission ==
    (Converted /\ Valid(A)) =>
        /\ adj.status = "ok"
        /\ \A r \in DOMAIN adj.value :
              /\ r \in 0..(A.shape[1] - 1)
              /\ At(A.indptr, r + 1) > At(A.indptr, r)
              /\ DOMAIN adj.value[r] # {}

\* a valid matrix with an empty row followed by a stored row has been converted
C4_Witness ==
    /\ Converted /\ Valid(A) /\ adj.status = "ok"
    /\ RowRange(A, 0) = {}
    /\ 1 \in DOMAIN adj.value

\* C5: when an entry of the matrix references a column that is not a key of the
\* vector, vecmul ends in a lookup error and returns no result mapping.
C5_LookupError ==
    (Multiplied /\ MissingKey(adj.value, v_dict)) =>
        /\ res.status = "KeyError"
        /\ "value" \notin DOMAIN res

\* a product that could accumulate one term before it met the missing column
C5_Witness ==
    /\ Multiplied /\ res.status = "KeyError"
    /\ \E r \in DOMAIN adj.value :
          \E c, d \in DOMAIN adj.value[r] :
             c < d /\ c \in DOMAIN v_dict /\ d \notin DOMAIN v_dict

\* C6 as stated: on a malformed compressed-row input csr2dict fails with a
\* structural-validity error and returns no dictionary.
C6_FailsFast ==
    (Converted /\ Malformed(A)) => adj.status = "StructuralValidityError"

\* C6 as the code behaves: on a malformed input (offsets within the stored
\* entries that decrease somewhere, or a column index outside [0, cols))
\* csr2dict raises nothing and returns a dictionary: its keys are the rows
\* but the last whose next offset is greater than their own, each inner entry is
\* a (column, value) pair stored in the row's offset range, and an out-of-range
\* column index is kept as a key.
C6_NoValidation ==
    (Converted /\ Malformed(A)) =>
        /\ adj.status = "ok"
        /\ DOMAIN adj.value =
              {r \in 0..(Len(A.indptr) - 3) : At(A.indptr, r + 1) > At(A.indptr, r)}
        /\ \A r \in DOMAIN adj.value :
              /\ DOMAIN adj.value[r] = {A.indices[k] : k \in RowRange(A, r)}
              /\ \A c \in DOMAIN adj.value[r] :
                    \E k \in RowRange(A, r) :
                       A.indices[k] = c /\ A.data[k] = adj.value[r][c]

\* a malformed matrix has been converted into a dictionary that holds a column
\* outside the matrix, and one with decreasing offsets into one that lost a row
C6_Witness ==
    /\ Converted /\ Malformed(A) /\ adj.status = "ok"
    /\ \E r \in DOMAIN adj.value :
          \E c \in DOMAIN adj.value[r] : c >= A.shape[2]
    /\ ~NonDecreasing(A.indptr)

\* C10: for the 5x5 toy matrix and the vector {0: 0.5, 1: 1, 2: 0.5, 3: 2, 4: 1}
\* the product vecmul(csr2dict(matrix), vector) is exactly
\* {1: 3.0, 2: 0.5, 3: 1.0} (in halves: 6, 1, 2); rows 0 and 4 are absent.
C10_WorkedExample ==
    (Multiplied /\ A = ToyCsr) =>
        /\ v_dict = ToyV
        /\ res = [status |-> "ok", value |-> (1 :> 6) @@ (2 :> 1) @@ (3 :> 2)]
        /\ 0 \notin DOMAIN res.value /\ 4 \notin DOMAIN res.value

\* the toy product has been computed
C10_Witness == Multiplied /\ A = ToyCsr /\ res.status = "ok"

----------------------------------------------------------------------------
(* Properties of run, checked under SpecRun. *)

Range(seq) == {seq[k] : k \in DOMAIN seq}

Occurrences(x, seq) == Cardinality({k \in DOMAIN seq : seq[k] = x})

CountIn(seq, S) == Cardinality({k \in DOMAIN seq : seq[k] \in S})

\* the current trial has executed its last statement
TrialDone == pc = "for_rep" /\ events # << >>

\* a history holds no sample
NoSamples(h) == \A d \in DOMAIN h : h[d] = << >>

\* C7 as stated: run returns a mapping that holds at [n][d], for every n in ns
\* and d in densities, exactly 3 samples, and no other size or density key;
\* each trial of a recognized method makes one product call and appends one
\* sample.
C7_ThreeSamples ==
    (method \in Methods) =>
        /\ CountIn(events, Products) <= 1
        /\ CountIn(events, {"append"}) <= 1
        /\ TrialDone => CountIn(events, Products) = 1 /\ CountIn(events, {"append"}) = 1
        /\ pc = "done" =>
              /\ DOMAIN history_tot = Range(ns)
              /\ \A k \in Range(ns) :
                    /\ DOMAIN history_tot[k] = Range(densities)
                    /\ \A d \in Range(densities) : Len(history_tot[k][d]) = 3

\* C7 as the code behaves: each trial of a recognized method makes exactly one
\* product call, the one of the method, and appends exactly one sample; on
\* return the mapping has the sizes of ns as keys and, for each, the densities as
\* keys, and holds at [n][d] 3 samples for every occurrence of d in densities
\* (3 when the densities are distinct).
C7_ThreePerOccurrence ==
    (method \in Methods) =>
        /\ CountIn(events, Products) <= 1
        /\ CountIn(events, {"append"}) <= 1
        /\ CountIn(events, Products \ {ProductOf(method)}) = 0
        /\ TrialDone => CountIn(events, Products) = 1 /\ CountIn(events, {"append"}) = 1
        /\ pc = "done" =>
              /\ DOMAIN history_tot = Range(ns)
              /\ calls.prod = 3 * Len(ns) * Len(densities)
              /\ \A k \in Range(ns) :
                    /\ DOMAIN history_tot[k] = Range(densities)
                    /\ \A d \in Range(densities) :
                          Len(history_tot[k][d]) = 3 * Occurrences(d, densities)

\* run has returned from a sweep over two sizes and a repeated density
C7_Witness ==
    /\ pc = "done" /\ method \in Methods
    /\ Len(ns) = 2 /\ ns[1] # ns[2]
    /\ Len(densities) = 2 /\ densities[1] = densities[2]
    /\ Len(history_tot[ns[1]][densities[1]]) = 6

\* the statements of the current trial executed since the start time was read
SinceStart ==
    IF CountIn(events, {"start"}) = 0 THEN << >>
    ELSE LET k == CHOOSE x \in DOMAIN events : events[x] = "start"
         IN  SubSeq(events, k + 1, Len(events))

Setup == {"create_sparse_matrix", "randn", "csr2dict"} \cup Conversions

\* the conversion statements of the method's branch
ConversionsOf(m) ==
    CASE m \in {"cython_dict", "cython_dict_map", "cython_dict_opt"} ->
            <<"MyDict(A)", "MyDict(v_dict)">>
      [] m = "COO" -> <<"tocoo">>
      [] m = "CSC" -> <<"tocsc">>
      [] m = "LIL" -> <<"tolil">>
      [] OTHER -> << >>

\* C8: in every trial the order is: generate matrix and vector, make every
\* conversion, read the start time, call the product, read the end time, record
\* the sample; no generation or conversion is executed between the two time
\* readings, which enclose the product call and nothing else.
C8_TimedWindow ==
    /\ CountIn(SinceStart, Setup) = 0
    /\ (method \in Methods /\ TrialDone) =>
          events = <<"create_sparse_matrix", "randn", "csr2dict">>
                   \o ConversionsOf(method)
                   \o <<"start", ProductOf(method), "end", "append">>
    /\ (pc = "append") => end - start = 2     \* the start statement and the product

\* a trial that converts before it times has recorded its sample
C8_Witness ==
    /\ TrialDone /\ method = "cython_dict"
    /\ CountIn(events, Conversions) = 2
    /\ CountIn(events, {"append"}) = 1

\* C9: with an empty size sequence or an empty density sequence run makes no
\* generator, converter or product call, records no sample, never stops before
\* it returns, and returns an empty mapping when both sequences are empty.
C9_EmptySweep ==
    (ns = << >> \/ densities = << >>) =>
        /\ calls = [gen |-> 0, conv |-> 0, prod |-> 0]
        /\ NoSamples(history)
        /\ \A k \in DOMAIN history_tot : NoSamples(history_tot[k])
        /\ pc \in {"for_n", "for_density", "store", "return", "done"}
        /\ pc # "done" => ENABLED NextRun
        /\ (pc = "done" /\ ns = << >>) => history_tot = EmptyDict

\* run has returned from a sweep over sizes with no density
C9_Witness ==
    /\ pc = "done" /\ ns # << >> /\ densities = << >>
    /\ DOMAIN history_tot = Range(ns)
=============================================================================
